---- MODULE Spec2Model ----
(***************************************************************************)
(* Model of notepy: the index store (zettelkasten/sql.py, DBManager over   *)
(* SQLite), the git wrapper (cli/git_wrapper.py) and the CLI subcommand    *)
(* handlers (cli/cli.py).                                                  *)
(*                                                                         *)
(* Python values that reach SQLite are records [cls, int, text]: a str is  *)
(* cls = "text" with its characters in text, an int is cls = "integer".    *)
(* SQLite returns values in the same two storage classes.                  *)
(***************************************************************************)
EXTENDS Integers, Sequences, FiniteSets, Bags, TLC

(* ------------------------------ bounds -------------------------------- *)

\* longest tags / links collection of a note
MaxLen == 2

\* most commits of a repository
MaxCommits == 2

\* most notes a list_notes of the vault returns to the list subcommand
MaxListed == 2

(* --------------------------- Python values ---------------------------- *)

PyStr(s) == [cls |-> "text", int |-> 0, text |-> s]

PyInt(n) == [cls |-> "integer", int |-> n, text |-> <<>>]

Digits == {"0", "1", "2", "3", "4", "5", "6", "7", "8", "9"}

DigitValue(c) ==
    CASE c = "0" -> 0 [] c = "1" -> 1 [] c = "2" -> 2 [] c = "3" -> 3
      [] c = "4" -> 4 [] c = "5" -> 5 [] c = "6" -> 6 [] c = "7" -> 7
      [] c = "8" -> 8 [] c = "9" -> 9

\* a well-formed integer literal (the alphabet of the model has no sign,
\* blank, point or exponent)
IsIntegerLiteral(s) == Len(s) > 0 /\ \A i \in 1..Len(s) : s[i] \in Digits

RECURSIVE DecimalValue(_)
DecimalValue(s) ==
    IF s = <<>> THEN 0
    ELSE DecimalValue(SubSeq(s, 1, Len(s) - 1)) * 10 + DigitValue(s[Len(s)])

\* Every column of the three tables is declared STRING (or DATETIME), which
\* SQLite gives NUMERIC affinity: text that is a well-formed integer literal
\* is stored as that INTEGER, anything else is stored as it is.
NumericAffinity(v) ==
    IF v.cls = "text" /\ IsIntegerLiteral(v.text)
    THEN PyInt(DecimalValue(v.text))
    ELSE v

(* ------------------------------ inputs -------------------------------- *)

\* zk_id: int in the signatures of sql.py
ZkIds == {PyInt(1), PyInt(2)}

\* the (title, author) headers notes are drawn from: one title is plain text,
\* the other is made of digits only
Headers ==
    {[title |-> PyStr(<<"a">>), author |-> PyStr(<<"a", "l">>)],
     [title |-> PyStr(<<"0", "7">>), author |-> PyStr(<<"b", "o">>)]}

TagValues == {PyStr(<<"t">>)}

LinkValues == {PyStr(<<"z">>)}

\* note.date: the creation time of a note
NoteDates == {0}

\* the readings of datetime.now() in update_note_to_index
Clock == {1}

SeqsUpTo(S, n) == UNION {[1..k -> S] : k \in 0..n}

Notes ==
    {[zk_id |-> i, title |-> h.title, author |-> h.author, date |-> d,
      tags |-> t, links |-> l] :
        i \in ZkIds, h \in Headers, d \in NoteDates,
        t \in SeqsUpTo(TagValues, MaxLen), l \in SeqsUpTo(LinkValues, MaxLen)}

(* ------------------------------- state -------------------------------- *)

VARIABLES
    foreign_keys,   \* PRAGMA foreign_keys of the SQLite build (never set by the code)
    schema,         \* the three tables exist in the index file
    zettelkasten,   \* rows of the main table
    tags,           \* rows of the tags table
    links,          \* rows of the links table
    last,           \* the last DBManager call: operation, zk_id, exception, result
    history,        \* zk_id -> title of the notes added and not deleted since
    txn,            \* the connection of an add_to_index call in progress
    is_dir,         \* the repository path is a directory
    is_repo,        \* path/.git is a directory
    gitignore,      \* path/.gitignore has been written
    wrapper,        \* a Git instance for the path has been constructed
    origin,         \* remote.origin.url is configured
    dirty,          \* the working tree has changes that are not staged
    staged,         \* the staging area has changes that are not committed
    commits,        \* commits of the repository at path
    pushed,         \* commits of the repository known to origin
    process_cwd,    \* the working directory of the calling process
    foreign_commits,\* commits made in the process's directory, not at path
    git_last,       \* the last Git call: operation, exception, commands issued
    cli_last        \* the last CLI subcommand: handler, exception, output

dbvars == <<foreign_keys, schema, zettelkasten, tags, links, last, history>>

gitvars ==
    <<is_dir, is_repo, gitignore, wrapper, origin, dirty, staged, commits, pushed,
      process_cwd, foreign_commits, git_last>>

\* what the index operations leave alone
rest == <<gitvars, cli_last>>

vars == <<dbvars, txn, gitvars, cli_last>>

\* the committed content of the index file
Database == [zettelkasten |-> zettelkasten, tags |-> tags, links |-> links]

NoValue == PyInt(0)

Call(op, zk_id, exc, ret) == [op |-> op, zk_id |-> zk_id, exc |-> exc, ret |-> ret]

(* ----------------------- SQLite statements ---------------------------- *)

\* number of ? placeholders of each statement
Placeholders(stmt) ==
    CASE stmt = "_INSERT_MAIN_STMT" -> 5
      [] stmt = "_INSERT_TAGS_STMT" -> 2
      [] stmt = "_INSERT_LINKS_STMT" -> 2
      [] stmt = "_DELETE_MAIN_STMT" -> 1
      [] stmt = "_DELETE_TAGS_STMT" -> 1
      [] stmt = "_DELETE_LINKS_STMT" -> 1
      [] stmt = "_UPDATE_MAIN_STMT" -> 4
      [] stmt = "_LIST_STMT" -> 0
      [] stmt = "_GET_LINKS_ID" -> 1

Result(err, db, rows) == [err |-> err, db |-> db, rows |-> rows]

HasParent(db, zk_id) == \E r \in db.zettelkasten : r.zk_id = zk_id

\* mutant: the main table without its primary key
INSERT_MAIN_STMT_NoPrimaryKey(db, p) ==
    Result("none",
           [db EXCEPT !.zettelkasten = @ \cup
                {[zk_id |-> NumericAffinity(p[1]),
                  title |-> NumericAffinity(p[2]),
                  author |-> NumericAffinity(p[3]),
                  creation_date |-> p[4],
                  last_changed |-> p[5]]}],
           EmptyBag)

\* INSERT INTO zettelkasten VALUES (?, ?, ?, ?, ?): PRIMARY KEY(zk_id)
INSERT_MAIN_STMT(db, p) ==
    LET row == [zk_id |-> NumericAffinity(p[1]),
                title |-> NumericAffinity(p[2]),
                author |-> NumericAffinity(p[3]),
                creation_date |-> p[4],
                last_changed |-> p[5]]
    IN  IF \E r \in db.zettelkasten : r.zk_id = row.zk_id
        THEN Result("IntegrityError", db, EmptyBag)
        ELSE Result("none", [db EXCEPT !.zettelkasten = @ \cup {row}], EmptyBag)

\* INSERT INTO tags VALUES (?, ?): columns (tag, zk_id), PRIMARY KEY(zk_id, tag),
\* FOREIGN KEY(zk_id) enforced only under PRAGMA foreign_keys
INSERT_TAGS_STMT(db, p) ==
    LET row == [tag |-> NumericAffinity(p[1]), zk_id |-> NumericAffinity(p[2])]
    IN  IF row \in db.tags \/ (foreign_keys /\ ~HasParent(db, row.zk_id))
        THEN Result("IntegrityError", db, EmptyBag)
        ELSE Result("none", [db EXCEPT !.tags = @ \cup {row}], EmptyBag)

\* INSERT INTO links VALUES (?, ?): columns (link, zk_id), PRIMARY KEY(zk_id, link)
INSERT_LINKS_STMT(db, p) ==
    LET row == [link |-> NumericAffinity(p[1]), zk_id |-> NumericAffinity(p[2])]
    IN  IF row \in db.links \/ (foreign_keys /\ ~HasParent(db, row.zk_id))
        THEN Result("IntegrityError", db, EmptyBag)
        ELSE Result("none", [db EXCEPT !.links = @ \cup {row}], EmptyBag)

\* mutant: DELETE FROM zettelkasten without its WHERE clause
DELETE_MAIN_STMT_NoWhere(db, p) ==
    Result("none",
           [zettelkasten |-> {},
            tags |-> IF foreign_keys THEN {} ELSE db.tags,
            links |-> IF foreign_keys THEN {} ELSE db.links],
           EmptyBag)

\* DELETE FROM zettelkasten WHERE zk_id = ?: ON DELETE CASCADE acts only under
\* PRAGMA foreign_keys
DELETE_MAIN_STMT(db, p) ==
    LET key == NumericAffinity(p[1])
        gone == {r \in db.zettelkasten : r.zk_id = key}
    IN  Result("none",
               [zettelkasten |-> db.zettelkasten \ gone,
                tags |-> IF foreign_keys /\ gone # {}
                         THEN {r \in db.tags : r.zk_id # key} ELSE db.tags,
                links |-> IF foreign_keys /\ gone # {}
                          THEN {r \in db.links : r.zk_id # key} ELSE db.links],
               EmptyBag)

DELETE_TAGS_STMT(db, p) ==
    Result("none",
           [db EXCEPT !.tags = {r \in @ : r.zk_id # NumericAffinity(p[1])}],
           EmptyBag)

DELETE_LINKS_STMT(db, p) ==
    Result("none",
           [db EXCEPT !.links = {r \in @ : r.zk_id # NumericAffinity(p[1])}],
           EmptyBag)

\* UPDATE zettelkasten SET title = ?, author = ?, last_changed = ? WHERE zk_id = ?
UPDATE_MAIN_STMT(db, p) ==
    LET key == NumericAffinity(p[4])
        upd(r) == IF r.zk_id = key
                  THEN [r EXCEPT !.title = NumericAffinity(p[1]),
                                 !.author = NumericAffinity(p[2]),
                                 !.last_changed = p[3]]
                  ELSE r
    IN  Result("none",
               [db EXCEPT !.zettelkasten = {upd(r) : r \in @}],
               EmptyBag)

\* SELECT zk_id, title FROM zettelkasten: one tuple per row
LIST_STMT(db, p) ==
    LET pairs == {<<r.zk_id, r.title>> : r \in db.zettelkasten}
    IN  Result("none", db,
               [q \in pairs |->
                   Cardinality({r \in db.zettelkasten : <<r.zk_id, r.title>> = q})])

\* SELECT link FROM links WHERE zk_id = ?
GET_LINKS_ID(db, p) ==
    LET found == {r.link : r \in {x \in db.links : x.zk_id = NumericAffinity(p[1])}}
    IN  Result("none", db, [l \in found |-> 1])

\* conn.execute(stmt, params): the statement is compiled first (no such table:
\* OperationalError), then the parameters are bound (wrong number:
\* ProgrammingError), then it runs
Execute(stmt, db, p) ==
    IF ~schema THEN Result("OperationalError", db, EmptyBag)
    ELSE IF Len(p) # Placeholders(stmt) THEN Result("ProgrammingError", db, EmptyBag)
    ELSE CASE stmt = "_INSERT_MAIN_STMT" -> INSERT_MAIN_STMT(db, p)
           [] stmt = "_INSERT_TAGS_STMT" -> INSERT_TAGS_STMT(db, p)
           [] stmt = "_INSERT_LINKS_STMT" -> INSERT_LINKS_STMT(db, p)
           [] stmt = "_DELETE_MAIN_STMT" -> DELETE_MAIN_STMT(db, p)
           [] stmt = "_DELETE_TAGS_STMT" -> DELETE_TAGS_STMT(db, p)
           [] stmt = "_DELETE_LINKS_STMT" -> DELETE_LINKS_STMT(db, p)
           [] stmt = "_UPDATE_MAIN_STMT" -> UPDATE_MAIN_STMT(db, p)
           [] stmt = "_LIST_STMT" -> LIST_STMT(db, p)
           [] stmt = "_GET_LINKS_ID" -> GET_LINKS_ID(db, p)

\* the next statement of a with-block: skipped once an exception is in flight
Then(res, stmt, p) == IF res.err # "none" THEN res ELSE Execute(stmt, res.db, p)

\* conn.executemany(stmt, payload): one execution per element, in order
RECURSIVE ExecuteMany(_, _, _)
ExecuteMany(res, stmt, payload) ==
    IF payload = <<>> THEN res
    ELSE ExecuteMany(Then(res, stmt, <<Head(payload)[1], Head(payload)[2]>>),
                     stmt, Tail(payload))

\* tags_payload / links_payload: [(value, note.zk_id) for value in ...]
Payload(values, zk_id) == [i \in 1..Len(values) |-> <<values[i], zk_id>>]

\* mutant: the connection commits whatever happened
ConnectionExit_CommitAlways(db, res) == res.db

\* leaving `with sqlite3.connect(...) as conn`: commit if no exception is in
\* flight, rollback otherwise
ConnectionExit(db, res) == IF res.err = "none" THEN res.db ELSE db

\* except sqlite3.IntegrityError as e: raise DBManagerException("SQL error")
Handled(err) == IF err = "IntegrityError" THEN "DBManagerException" ELSE err

Start(db) == Result("none", db, EmptyBag)

(* ------------------------ DBManager operations ------------------------ *)

AddTransaction(db, note) ==
    LET main_payload == <<note.zk_id, note.title, note.author, note.date, note.date>>
        tags_payload == Payload(note.tags, note.zk_id)
        links_payload == Payload(note.links, note.zk_id)
        r1 == Then(Start(db), "_INSERT_MAIN_STMT", main_payload)
        r2 == ExecuteMany(r1, "_INSERT_TAGS_STMT", tags_payload)
    IN  ExecuteMany(r2, "_INSERT_LINKS_STMT", links_payload)

UpdateTransaction(db, note, current_date) ==
    LET main_payload == <<note.title, note.author, current_date, note.zk_id>>
        tags_payload == Payload(note.tags, note.zk_id)
        links_payload == Payload(note.links, note.zk_id)
        r1 == Then(Start(db), "_UPDATE_MAIN_STMT", main_payload)
        r2 == Then(r1, "_DELETE_TAGS_STMT", <<note.zk_id>>)
        r3 == Then(r2, "_DELETE_LINKS_STMT", <<note.zk_id>>)
        r4 == ExecuteMany(r3, "_INSERT_TAGS_STMT", tags_payload)
    IN  ExecuteMany(r4, "_INSERT_LINKS_STMT", links_payload)

DeleteTransaction(db, zk_id) == Then(Start(db), "_DELETE_MAIN_STMT", <<zk_id>>)

ListTransaction(db) == Then(Start(db), "_LIST_STMT", <<>>)

\* conn.execute(_GET_LINKS_ID): zk_id is not passed on
GetLinksTransaction(db, zk_id) == Then(Start(db), "_GET_LINKS_ID", <<>>)

Commit(db) ==
    /\ zettelkasten' = db.zettelkasten
    /\ tags' = db.tags
    /\ links' = db.links

Without(h, zk_id) == [i \in DOMAIN h \ {zk_id} |-> h[i]]

With(h, zk_id, title) == [i \in DOMAIN h \cup {zk_id} |-> IF i = zk_id THEN title ELSE h[i]]

create_tables ==
    /\ schema' = TRUE
    /\ last' = Call("create_tables", NoValue, "none", EmptyBag)
    /\ UNCHANGED <<foreign_keys, zettelkasten, tags, links, history>>

drop_tables ==
    /\ schema' = FALSE
    /\ Commit([zettelkasten |-> {}, tags |-> {}, links |-> {}])
    /\ history' = <<>>
    /\ last' = Call("drop_tables", NoValue, "none", EmptyBag)
    /\ UNCHANGED foreign_keys

add_to_index(note) ==
    \E res \in {AddTransaction(Database, note)} :
        /\ Commit(ConnectionExit(Database, res))
        /\ last' = Call("add_to_index", note.zk_id, Handled(res.err), EmptyBag)
        /\ history' = IF res.err = "none"
                      THEN With(history, note.zk_id, note.title) ELSE history
        /\ UNCHANGED <<foreign_keys, schema>>

update_note_to_index(note, current_date) ==
    \E res \in {UpdateTransaction(Database, note, current_date)} :
        /\ Commit(ConnectionExit(Database, res))
        /\ last' = Call("update_note_to_index", note.zk_id, Handled(res.err), EmptyBag)
        /\ history' = IF res.err = "none" /\ note.zk_id \in DOMAIN history
                      THEN With(history, note.zk_id, note.title) ELSE history
        /\ UNCHANGED <<foreign_keys, schema>>

delete_from_index(zk_id) ==
    \E res \in {DeleteTransaction(Database, zk_id)} :
        /\ Commit(ConnectionExit(Database, res))
        /\ last' = Call("delete_from_index", zk_id, Handled(res.err), EmptyBag)
        /\ history' = IF res.err = "none" THEN Without(history, zk_id) ELSE history
        /\ UNCHANGED <<foreign_keys, schema>>

list_notes ==
    \E res \in {ListTransaction(Database)} :
        /\ Commit(ConnectionExit(Database, res))
        /\ last' = Call("list_notes", NoValue, res.err, res.rows)
        /\ UNCHANGED <<foreign_keys, schema, history>>

get_links(zk_id) ==
    \E res \in {GetLinksTransaction(Database, zk_id)} :
        /\ Commit(ConnectionExit(Database, res))
        /\ last' = Call("get_links", zk_id, res.err, res.rows)
        /\ UNCHANGED <<foreign_keys, schema, history>>

(* ----------------------------- git wrapper ---------------------------- *)

\* self.path, and a directory that is not self.path
Path == "path"

Elsewhere == "elsewhere"

\* the directory cwd="." stands for
Resolve(cwd) == IF cwd = "." THEN process_cwd ELSE cwd

GitCall(op, exc, issued) == [op |-> op, exc |-> exc, issued |-> issued]

\* the exit statuses a command can end with in directory dir
ExitCodes(command, dir) ==
    CASE command = "git config --get remote.origin.url" ->
            (IF origin THEN {0} ELSE {1}) \cup {128}
      [] command = "git commit" ->
            IF dir = Path
            THEN (IF staged THEN {0} ELSE {1}) \cup {128}
            ELSE {0, 1, 128}
      [] OTHER -> {0, 128}

\* a run in progress: the exception in flight and the commands issued so far
Running == [exc |-> "none", issued |-> <<>>]

Issue(run, command, cwd, rc) ==
    Append(run.issued, [cmd |-> command, cwd |-> Resolve(cwd), rc |-> rc])

\* run_and_handle(command, cwd): GitException on a non-zero exit status
run_and_handle(run, command, cwd, rc) ==
    IF run.exc # "none" THEN run
    ELSE [exc |-> IF rc # 0 THEN "GitException" ELSE "none",
          issued |-> Issue(run, command, cwd, rc)]

\* Git._origin_exists: subprocess.run without run_and_handle; exit status 1 is
\* the answer "no origin", any other non-zero status makes check_returncode()
\* raise subprocess.CalledProcessError
origin_exists(run, rc) ==
    [exc |-> IF rc \notin {0, 1} THEN "CalledProcessError" ELSE "none",
     issued |-> Issue(run, "git config --get remote.origin.url", Path, rc),
     value |-> rc # 1]

Succeeded(run, command) ==
    \E i \in DOMAIN run.issued : run.issued[i].cmd = command /\ run.issued[i].rc = 0

\* Git.__init__ / Git._is_repo
_is_repo == IF is_dir /\ is_repo THEN "none" ELSE "GitException"

GitNew ==
    /\ wrapper' = (wrapper \/ _is_repo = "none")
    /\ git_last' = GitCall("__init__", _is_repo, <<>>)
    /\ UNCHANGED <<is_dir, is_repo, gitignore, origin, dirty, staged, commits,
                   pushed, process_cwd, foreign_commits>>

\* Git.init(path)
init(rc1, rc2, rc3) ==
    IF ~is_dir \/ is_repo
    THEN /\ git_last' = GitCall("init", "GitException", <<>>)
         /\ UNCHANGED <<is_dir, is_repo, gitignore, wrapper, origin, dirty, staged,
                        commits, pushed, process_cwd, foreign_commits>>
    ELSE LET r1 == run_and_handle(Running, "git init", Path, rc1)
             r2 == run_and_handle(r1, "git add .", Path, rc2)
             r3 == run_and_handle(r2, "git commit", Path, rc3)
         IN  /\ gitignore' = TRUE
             /\ is_repo' = Succeeded(r3, "git init")
             /\ staged' = (Succeeded(r3, "git add .") /\ ~Succeeded(r3, "git commit"))
             /\ dirty' = (dirty /\ ~Succeeded(r3, "git add ."))
             /\ commits' = IF Succeeded(r3, "git commit") THEN 1 ELSE 0
             /\ wrapper' = (wrapper \/ r3.exc = "none")
             /\ git_last' = GitCall("init", r3.exc, r3.issued)
             /\ UNCHANGED <<is_dir, origin, pushed, process_cwd, foreign_commits>>

GitInit ==
    \E rc1 \in ExitCodes("git init", Path), rc2 \in ExitCodes("git add .", Path),
       rc3 \in {0, 128} :
        init(rc1, rc2, rc3)

\* Git.add
add(rc) ==
    LET r == run_and_handle(Running, "git add -A", Path, rc)
    IN  /\ staged' = (staged \/ (r.exc = "none" /\ dirty))
        /\ dirty' = (dirty /\ r.exc # "none")
        /\ git_last' = GitCall("add", r.exc, r.issued)
        /\ UNCHANGED <<is_dir, is_repo, gitignore, wrapper, origin, commits, pushed,
                       process_cwd, foreign_commits>>

GitAdd == wrapper /\ \E rc \in ExitCodes("git add -A", Path) : add(rc)

\* Git.commit: run_and_handle without cwd, so in the directory of the process
commit(rc) ==
    LET r == run_and_handle(Running, "git commit", ".", rc)
        here == Resolve(".") = Path
    IN  /\ staged' = (staged /\ ~(here /\ r.exc = "none"))
        /\ commits' = IF here /\ r.exc = "none" THEN commits + 1 ELSE commits
        /\ foreign_commits' =
                IF ~here /\ r.exc = "none" THEN foreign_commits + 1 ELSE foreign_commits
        /\ git_last' = GitCall("commit", r.exc, r.issued)
        /\ UNCHANGED <<is_dir, is_repo, gitignore, wrapper, origin, dirty, pushed,
                       process_cwd>>

GitCommit ==
    /\ wrapper
    /\ commits < MaxCommits
    /\ foreign_commits < MaxCommits
    /\ \E rc \in ExitCodes("git commit", Resolve(".")) : commit(rc)

\* Git.push
push(rc1, rc2) ==
    LET o == origin_exists(Running, rc1)
        r == IF o.exc # "none" THEN o
             ELSE IF ~o.value THEN [exc |-> "GitException", issued |-> o.issued]
             ELSE run_and_handle(o, "git push", Path, rc2)
    IN  /\ pushed' = IF Succeeded(r, "git push") THEN commits ELSE pushed
        /\ git_last' = GitCall("push", r.exc, r.issued)
        /\ UNCHANGED <<is_dir, is_repo, gitignore, wrapper, origin, dirty, staged,
                       commits, process_cwd, foreign_commits>>

GitPush ==
    /\ wrapper
    /\ \E rc1 \in ExitCodes("git config --get remote.origin.url", Path),
          rc2 \in ExitCodes("git push", Path) :
            push(rc1, rc2)

\* Git.add_origin(origin)
add_origin(rc1, rc2, rc3) ==
    LET o == origin_exists(Running, rc1)
        r2 == IF o.exc # "none" THEN o
              ELSE IF o.value THEN [exc |-> "GitException", issued |-> o.issued]
              ELSE run_and_handle(o, "git remote add origin", Path, rc2)
        r3 == run_and_handle(r2, "git push origin master --set-upstream", Path, rc3)
    IN  /\ origin' = (origin \/ Succeeded(r3, "git remote add origin"))
        /\ pushed' = IF Succeeded(r3, "git push origin master --set-upstream")
                     THEN commits ELSE pushed
        /\ git_last' = GitCall("add_origin", r3.exc, r3.issued)
        /\ UNCHANGED <<is_dir, is_repo, gitignore, wrapper, dirty, staged, commits,
                       process_cwd, foreign_commits>>

GitAddOrigin ==
    /\ wrapper
    /\ \E rc1 \in ExitCodes("git config --get remote.origin.url", Path),
          rc2 \in ExitCodes("git remote add origin", Path),
          rc3 \in ExitCodes("git push origin master --set-upstream", Path) :
            add_origin(rc1, rc2, rc3)

\* Git.status (the property's getter)
status(rc) ==
    LET r == run_and_handle(Running, "git status", Path, rc)
    IN  /\ git_last' = GitCall("status", r.exc, r.issued)
        /\ UNCHANGED <<is_dir, is_repo, gitignore, wrapper, origin, dirty, staged,
                       commits, pushed, process_cwd, foreign_commits>>

GitStatus == wrapper /\ \E rc \in ExitCodes("git status", Path) : status(rc)

\* the environment: a note file is written or removed under path
EditFiles ==
    /\ is_dir
    /\ ~dirty
    /\ dirty' = TRUE
    /\ UNCHANGED <<is_dir, is_repo, gitignore, wrapper, origin, staged, commits,
                   pushed, process_cwd, foreign_commits, git_last>>

(* -------------------------- CLI subcommands --------------------------- *)

Handlers == {"initialize", "new", "edit", "delete", "print", "list", "reindex"}

\* the exceptions a vault operation can raise: the vault's own, those of the
\* index and of the git wrapper, and others
Kinds ==
    {"TitleClashError", "ZettelkastenException", "DBManagerException",
     "GitException", "OperationalError", "FileNotFoundError", "KeyboardInterrupt"}

\* isinstance(exception of kind, class): TitleClashError derives from
\* ZettelkastenException, a bare except takes everything
IsInstance(kind, class) ==
    \/ class = "BaseException"
    \/ kind = class
    \/ kind = "TitleClashError" /\ class = "ZettelkastenException"

\* mutant: the bare except prints the exception instead of raising it again
ExceptClauses_Swallow(handler) ==
    <<[class |-> "ZettelkastenException", do |-> "print(e)"],
      [class |-> "BaseException", do |-> "print(e)"]>>

\* the except clauses of each handler, in order
ExceptClauses(handler) ==
    CASE handler = "initialize" ->
            <<[class |-> "ZettelkastenException", do |-> "print(hint)"]>>
      [] handler = "new" ->
            <<[class |-> "TitleClashError", do |-> "print(e)"],
              [class |-> "ZettelkastenException", do |-> "print(e)"],
              [class |-> "BaseException", do |-> "raise"]>>
      [] OTHER ->
            <<[class |-> "ZettelkastenException", do |-> "print(e)"],
              [class |-> "BaseException", do |-> "raise"]>>

\* the vault calls of the try block of each handler, in order
TryCalls(handler, no_multi_core) ==
    CASE handler = "initialize" -> <<"Zettelkasten.initialize">>
      [] handler = "new" -> <<"_create_zettelkasten", "new">>
      [] handler = "edit" -> <<"_create_zettelkasten", "update">>
      [] handler = "delete" -> <<"_create_zettelkasten", "delete">>
      [] handler = "print" -> <<"_create_zettelkasten", "print_note">>
      [] handler = "list" -> <<"_create_zettelkasten", "list_notes">>
      [] handler = "reindex" ->
            <<"_create_zettelkasten",
              IF no_multi_core THEN "multiprocess_index_vault" ELSE "index_vault">>

\* what the try block prints when no call of it raises
TryOutput(handler, listed) ==
    CASE handler = "initialize" -> <<"Vault initialized in">>
      [] handler = "list" -> [i \in 1..listed |-> "title (ID: id)"]
      [] handler = "reindex" -> <<"Reindexing terminated successfully.">>
      [] OTHER -> <<>>

\* the first except clause that takes the exception, 0 if none does
RECURSIVE Matching(_, _, _)
Matching(clauses, kind, i) ==
    IF i > Len(clauses) THEN 0
    ELSE IF IsInstance(kind, clauses[i].class) THEN i
    ELSE Matching(clauses, kind, i + 1)

CliCall(handler, called, raised, propagated, stdout) ==
    [handler |-> handler, called |-> called, raised |-> raised,
     propagated |-> propagated, stdout |-> stdout]

\* a handler runs: the calls of its try block up to the one that raises (at,
\* 0 when none raises), then the except clauses
Handle(handler, no_multi_core, at, kind, listed) ==
    LET calls == TryCalls(handler, no_multi_core)
        clauses == ExceptClauses(handler)
        m == Matching(clauses, kind, 1)
    IN  IF at = 0
        THEN CliCall(handler, calls, "none", "none", TryOutput(handler, listed))
        ELSE CliCall(handler, SubSeq(calls, 1, at), kind,
                     IF m = 0 \/ clauses[m].do = "raise" THEN kind ELSE "none",
                     IF m = 0 \/ clauses[m].do = "raise" THEN <<>>
                     ELSE <<clauses[m].do>>)

CliRun ==
    \E handler \in Handlers, no_multi_core \in BOOLEAN, kind \in Kinds,
       listed \in 0..MaxListed :
        \E at \in 0..Len(TryCalls(handler, no_multi_core)) :
            /\ cli_last' = Handle(handler, no_multi_core, at, kind, listed)
            /\ UNCHANGED <<dbvars, txn, gitvars>>

(* ---------------- add_to_index, statement by statement ---------------- *)

EmptyDatabase == [zettelkasten |-> {}, tags |-> {}, links |-> {}]

NoNote ==
    [zk_id |-> NoValue, title |-> PyStr(<<>>), author |-> PyStr(<<>>), date |-> 0,
     tags |-> <<>>, links |-> <<>>]

\* no call in progress
IdleTxn ==
    [pc |-> "idle", note |-> NoNote, pre |-> EmptyDatabase, work |-> EmptyDatabase,
     err |-> "none"]

InFlight == txn.pc \in {"main", "tags", "links", "exit"}

Advance(res, pc) ==
    [txn EXCEPT !.work = res.db, !.err = res.err,
                !.pc = IF res.err = "none" THEN pc ELSE "exit"]

\* the payloads are built and the connection is opened: what the statements
\* write stays in the connection's transaction (work) until it commits
AddBegin(note) ==
    /\ ~InFlight
    /\ txn' = [pc |-> "main", note |-> note, pre |-> Database, work |-> Database,
               err |-> "none"]
    /\ UNCHANGED <<dbvars, rest>>

\* conn.execute(_INSERT_MAIN_STMT, main_payload)
AddInsertMain ==
    /\ txn.pc = "main"
    /\ txn' = Advance(Then(Start(txn.work), "_INSERT_MAIN_STMT",
                           <<txn.note.zk_id, txn.note.title, txn.note.author,
                             txn.note.date, txn.note.date>>),
                      "tags")
    /\ UNCHANGED <<dbvars, rest>>

\* conn.executemany(_INSERT_TAGS_STMT, tags_payload)
AddInsertTags ==
    /\ txn.pc = "tags"
    /\ txn' = Advance(ExecuteMany(Start(txn.work), "_INSERT_TAGS_STMT",
                                  Payload(txn.note.tags, txn.note.zk_id)),
                      "links")
    /\ UNCHANGED <<dbvars, rest>>

\* conn.executemany(_INSERT_LINKS_STMT, links_payload)
AddInsertLinks ==
    /\ txn.pc = "links"
    /\ txn' = Advance(ExecuteMany(Start(txn.work), "_INSERT_LINKS_STMT",
                                  Payload(txn.note.links, txn.note.zk_id)),
                      "exit")
    /\ UNCHANGED <<dbvars, rest>>

\* the with-block is left (commit or rollback) and the call returns or raises
AddExit ==
    /\ txn.pc = "exit"
    /\ Commit(ConnectionExit(Database, Result(txn.err, txn.work, EmptyBag)))
    /\ last' = Call("add_to_index", txn.note.zk_id, Handled(txn.err), EmptyBag)
    /\ history' = IF txn.err = "none"
                  THEN With(history, txn.note.zk_id, txn.note.title) ELSE history
    /\ txn' = [txn EXCEPT !.pc = "done", !.work = txn.pre]
    /\ UNCHANGED <<foreign_keys, schema, rest>>

(* --------------------------- specification ---------------------------- *)

\* a DBManager on an index file without tables
InitIndex ==
    /\ schema = FALSE
    /\ zettelkasten = {}
    /\ tags = {}
    /\ links = {}
    /\ last = Call("__init__", NoValue, "none", EmptyBag)
    /\ history = <<>>
    /\ txn = IdleTxn

\* a directory that is no repository yet, and no Git instance
InitGit ==
    /\ is_repo = FALSE
    /\ gitignore = FALSE
    /\ wrapper = FALSE
    /\ origin = FALSE
    /\ dirty = FALSE
    /\ staged = FALSE
    /\ commits = 0
    /\ pushed = 0
    /\ foreign_commits = 0
    /\ git_last = GitCall("none", "none", <<>>)
    /\ cli_last = CliCall("none", <<>>, "none", "none", <<>>)

Init ==
    /\ foreign_keys \in BOOLEAN
    /\ InitIndex
    /\ is_dir = TRUE
    /\ process_cwd = Path
    /\ InitGit

\* the calls of one DBManager, each a whole handler
CreateTables == create_tables /\ UNCHANGED <<txn, rest>>

DropTables == drop_tables /\ UNCHANGED <<txn, rest>>

AddToIndex == \E note \in Notes : add_to_index(note) /\ UNCHANGED <<txn, rest>>

UpdateNoteToIndex ==
    \E note \in Notes, current_date \in Clock :
        update_note_to_index(note, current_date) /\ UNCHANGED <<txn, rest>>

DeleteFromIndex == \E zk_id \in ZkIds : delete_from_index(zk_id) /\ UNCHANGED <<txn, rest>>

ListNotes == list_notes /\ UNCHANGED <<txn, rest>>

GetLinks == \E zk_id \in ZkIds : get_links(zk_id) /\ UNCHANGED <<txn, rest>>

Next ==
    \/ CreateTables
    \/ DropTables
    \/ AddToIndex
    \/ UpdateNoteToIndex
    \/ DeleteFromIndex
    \/ ListNotes
    \/ GetLinks

Spec == Init /\ [][Next]_vars

\* one writer that runs add_to_index statement by statement and
\* delete_from_index between two adds, and a reader on a connection of its
\* own that may call list_notes and get_links at any point
TxnCreateTables == ~InFlight /\ create_tables /\ txn' = IdleTxn /\ UNCHANGED rest

TxnAddBegin == \E note \in Notes : AddBegin(note)

TxnDeleteFromIndex ==
    /\ ~InFlight
    /\ \E zk_id \in ZkIds : delete_from_index(zk_id)
    /\ txn' = IdleTxn
    /\ UNCHANGED rest

ReaderListNotes == list_notes /\ UNCHANGED <<txn, rest>>

ReaderGetLinks == \E zk_id \in ZkIds : get_links(zk_id) /\ UNCHANGED <<txn, rest>>

NextTxn ==
    \/ TxnCreateTables
    \/ TxnAddBegin
    \/ AddInsertMain
    \/ AddInsertTags
    \/ AddInsertLinks
    \/ AddExit
    \/ TxnDeleteFromIndex
    \/ ReaderListNotes
    \/ ReaderGetLinks

SpecTxn == Init /\ [][NextTxn]_vars

\* the calls of the git wrapper on one path, from a process whose working
\* directory is the path or another directory
InitGitSpec ==
    /\ foreign_keys = FALSE
    /\ InitIndex
    /\ is_dir \in BOOLEAN
    /\ process_cwd \in {Path, Elsewhere}
    /\ InitGit

NextGit ==
    \/ GitNew /\ UNCHANGED <<dbvars, txn, cli_last>>
    \/ GitInit /\ UNCHANGED <<dbvars, txn, cli_last>>
    \/ GitAdd /\ UNCHANGED <<dbvars, txn, cli_last>>
    \/ GitCommit /\ UNCHANGED <<dbvars, txn, cli_last>>
    \/ GitPush /\ UNCHANGED <<dbvars, txn, cli_last>>
    \/ GitAddOrigin /\ UNCHANGED <<dbvars, txn, cli_last>>
    \/ GitStatus /\ UNCHANGED <<dbvars, txn, cli_last>>
    \/ EditFiles /\ UNCHANGED <<dbvars, txn, cli_last>>

SpecGit == InitGitSpec /\ [][NextGit]_vars

\* the subcommand handlers of the CLI, one invocation after another
NextCli == CliRun

SpecCli == Init /\ [][NextCli]_vars

(* ------------------------------ claims -------------------------------- *)

Key(note) == NumericAffinity(note.zk_id)

Indexed(zk_id) == HasParent(Database, NumericAffinity(zk_id))

TablesUnchanged == UNCHANGED <<zettelkasten, tags, links>>

\* the rows of every zk_id other than key are the same before and after
OthersUnchanged(key) ==
    /\ {r \in zettelkasten' : r.zk_id # key} = {r \in zettelkasten : r.zk_id # key}
    /\ {r \in tags' : r.zk_id # key} = {r \in tags : r.zk_id # key}
    /\ {r \in links' : r.zk_id # key} = {r \in links : r.zk_id # key}

\* C1: referential integrity: every tags row and every links row carries the
\* zk_id of an existing row of the main table, in every reachable state.
C1_ReferentialIntegrity ==
    /\ \A r \in tags : Indexed(r.zk_id)
    /\ \A r \in links : Indexed(r.zk_id)

TagRows(note) == {[tag |-> NumericAffinity(note.tags[i]), zk_id |-> Key(note)] : i \in DOMAIN note.tags}

LinkRows(note) == {[link |-> NumericAffinity(note.links[i]), zk_id |-> Key(note)] : i \in DOMAIN note.links}

\* the index is pre plus the note: one main row of its zk_id, one tags row per
\* tag, one links row per link
Landed(pre, note) ==
    /\ \E r \in zettelkasten :
        r.zk_id = Key(note) /\ zettelkasten = pre.zettelkasten \cup {r}
    /\ ~HasParent(pre, Key(note))
    /\ tags = pre.tags \cup TagRows(note)
    /\ Cardinality(tags \ pre.tags) = Len(note.tags)
    /\ links = pre.links \cup LinkRows(note)
    /\ Cardinality(links \ pre.links) = Len(note.links)

ListedKeys(ret) == {q[1] : q \in DOMAIN ret}

\* C2: add_to_index is all-or-nothing. While the call runs the index file is
\* as it was before the call; once it has returned the index is the one before
\* the call plus the note's main row, one tags row per tag and one links row
\* per link; once it has raised the index is exactly the one before the call;
\* and a list_notes that shows the main row of the note being added finds all
\* its tags and links rows in the index.
C2_AddAllOrNothing ==
    /\ InFlight => Database = txn.pre
    /\ txn.pc = "done" =>
        \/ txn.err = "none" /\ Landed(txn.pre, txn.note)
        \/ txn.err # "none" /\ Database = txn.pre
    /\ (/\ txn.pc # "idle"
        /\ last.op = "list_notes"
        /\ ~HasParent(txn.pre, Key(txn.note))
        /\ Key(txn.note) \in ListedKeys(last.ret))
            => (TagRows(txn.note) \subseteq tags /\ LinkRows(txn.note) \subseteq links)

\* C2 witness: an add_to_index has raised after its main row was written (the
\* zk_id was not indexed before the call; a tags or links row violated its
\* primary key).
C2_RaisedAfterMainRow ==
    /\ txn.pc = "done"
    /\ txn.err = "IntegrityError"
    /\ ~HasParent(txn.pre, Key(txn.note))
    /\ last.op = "list_notes"

\* C3: add_to_index of a note whose zk_id is already the key of a main row
\* raises DBManagerException and leaves the three tables unchanged, and the
\* main table never holds two rows with the same zk_id.
C3_AddExistingConflicts ==
    /\ [][(last'.op = "add_to_index" /\ Indexed(last'.zk_id))
            => (last'.exc = "DBManagerException" /\ TablesUnchanged)]_vars
    /\ [](\A r1, r2 \in zettelkasten : r1.zk_id = r2.zk_id => r1 = r2)

\* C3 witness: an add_to_index of an indexed zk_id has just been refused.
C3_ConflictRaised ==
    /\ last.op = "add_to_index"
    /\ last.exc = "DBManagerException"
    /\ Indexed(last.zk_id)

\* C4: update_note_to_index of a note whose zk_id has no main row raises
\* DBManagerException and leaves the three tables unchanged (stated on an
\* index whose tables exist).
C4_UpdateMissingFails ==
    [][(schema /\ last'.op = "update_note_to_index" /\ ~Indexed(last'.zk_id))
        => (last'.exc = "DBManagerException" /\ TablesUnchanged)]_vars

Range(f) == {f[i] : i \in DOMAIN f}

TagsOf(rows, key) == {r.tag : r \in {x \in rows : x.zk_id = key}}

LinksOf(rows, key) == {r.link : r \in {x \in rows : x.zk_id = key}}

\* C5: a successful update_note_to_index of an indexed note leaves one main row
\* of that zk_id carrying the note's title and author and the old
\* creation_date, exactly the note's tags and links as that zk_id's tags and
\* links rows, and the rows of every other zk_id unchanged.
C5_UpdateReplaces ==
    [][\A note \in Notes, current_date \in Clock :
        (/\ Indexed(note.zk_id)
         /\ last'.op = "update_note_to_index"
         /\ last'.exc = "none"
         /\ update_note_to_index(note, current_date))
            => (/\ \E old \in zettelkasten, new \in zettelkasten' :
                    /\ old.zk_id = Key(note)
                    /\ new.zk_id = Key(note)
                    /\ new.title = note.title
                    /\ new.author = note.author
                    /\ new.creation_date = old.creation_date
                /\ TagsOf(tags', Key(note)) = Range(note.tags)
                /\ LinksOf(links', Key(note)) = Range(note.links)
                /\ OthersUnchanged(Key(note)))]_vars

\* C6: get_links(id) raises nothing and returns exactly the link targets of the
\* links rows of that id, none when there are none (stated on an index whose
\* tables exist).
C6_GetLinksReturnsLinks ==
    (schema /\ last.op = "get_links")
        => (/\ last.exc = "none"
            /\ last.ret = SetToBag(LinksOf(links, NumericAffinity(last.zk_id))))

\* C7: on an initialized index list_notes returns exactly one (zk_id, title)
\* pair for each note added and not deleted since, with the title of the
\* note's most recent successful add or update, and nothing else.
C7_ListIsHistory ==
    (schema /\ last.op = "list_notes")
        => (/\ last.exc = "none"
            /\ last.ret = SetToBag({<<i, history[i]>> : i \in DOMAIN history}))

\* C8 as stated: delete_from_index raises nothing; with an id that has no main
\* row it leaves the three tables unchanged; with an indexed id it removes
\* that id's main row and leaves the rows of every other id unchanged.
C8_DeleteNoOpSafe ==
    [][(last'.op = "delete_from_index")
        => (/\ last'.exc = "none"
            /\ ~Indexed(last'.zk_id) => TablesUnchanged
            /\ \A r \in zettelkasten' : r.zk_id # NumericAffinity(last'.zk_id)
            /\ OthersUnchanged(NumericAffinity(last'.zk_id)))]_vars

\* C8 amended: the same, on an index whose tables exist.
C8_DeleteNoOpSafeOnSchema ==
    [][(schema /\ last'.op = "delete_from_index")
        => (/\ last'.exc = "none"
            /\ ~Indexed(last'.zk_id) => TablesUnchanged
            /\ \A r \in zettelkasten' : r.zk_id # NumericAffinity(last'.zk_id)
            /\ OthersUnchanged(NumericAffinity(last'.zk_id)))]_vars

\* C8 witness: a delete_from_index has returned, its id has no main row, and
\* the tables still hold a main row and a tags row of another id.
C8_DeletedAmongOthers ==
    /\ schema
    /\ last.op = "delete_from_index"
    /\ last.exc = "none"
    /\ ~Indexed(last.zk_id)
    /\ \E r \in zettelkasten, t \in tags :
        r.zk_id = t.zk_id /\ r.zk_id # NumericAffinity(last.zk_id)

AbnormalExit(p) ==
    p.rc # 0 /\ ~(p.cmd = "git config --get remote.origin.url" /\ p.rc = 1)

\* C9: a git wrapper operation raises nothing but GitException, and raises
\* GitException whenever one of its git commands exits with a non-zero status
\* that the operation does not treat as a normal answer.
C9_FailuresAreGitExceptions ==
    /\ git_last.exc \in {"none", "GitException"}
    /\ (\E i \in DOMAIN git_last.issued : AbnormalExit(git_last.issued[i]))
            => git_last.exc = "GitException"

DomainErrors == {"ZettelkastenException", "TitleClashError"}

\* C10: a subcommand handler turns a ZettelkastenException or TitleClashError
\* of the vault into a printed message and returns normally; it lets every
\* other exception out unchanged and prints nothing for it; and the success
\* message of reindex is printed exactly when reindex raised nothing.
C10_OnlyDomainErrorsCaught ==
    /\ cli_last.raised \in DomainErrors
            => (cli_last.propagated = "none" /\ Len(cli_last.stdout) = 1)
    /\ cli_last.raised \notin DomainErrors
            => cli_last.propagated = cli_last.raised
    /\ cli_last.raised \notin DomainErrors \cup {"none"} => cli_last.stdout = <<>>
    /\ ("Reindexing terminated successfully." \in Range(cli_last.stdout))
            <=> (cli_last.handler = "reindex" /\ cli_last.raised = "none")

\* C10 witness: the reindex of the vault raised an exception of the index, and
\* the reindex handler let it out without printing anything.
C10_ReindexLetsIndexErrorOut ==
    /\ cli_last.handler = "reindex"
    /\ cli_last.called = <<"_create_zettelkasten", "index_vault">>
    /\ cli_last.raised = "DBManagerException"
    /\ cli_last.propagated = "DBManagerException"
    /\ cli_last.stdout = <<>>

\* C11: every git command issued by add, commit, push, add_origin or status
\* runs in self.path whatever the directory of the process is, so no commit
\* ever lands in a repository other than the one at self.path.
C11_CommandsRunInPath ==
    /\ git_last.op \in {"add", "commit", "push", "add_origin", "status"}
            => \A i \in DOMAIN git_last.issued : git_last.issued[i].cwd = Path
    /\ foreign_commits = 0

====
